---- MODULE Spec2Model ----
(***************************************************************************)
(* Landing Page strategy workbench (src/app.py): a three-step pipeline     *)
(* over st.session_state, the file ingestion with readiness polling, and   *)
(* the Markdown -> .docx export.                                           *)
(*                                                                         *)
(* Texts are sequences of one-character strings; <<>> is Python's "".      *)
(***************************************************************************)
EXTENDS Naturals, Integers, Sequences, FiniteSets, TLC

VARIABLES
    session_state,       \* [step1_result, step2_result, step3_result]
    api_key,             \* the sidebar text input
    pc,                  \* "idle" | "ingest" | "poll" | "generate"
    run,                 \* the button handler in progress: stage, mode, files supplied
    todo,                \* files of the run not yet given to process_uploaded_file
    gemini_files,        \* gemini_files_s1 / _s2 / _s3
    format_instruction,  \* Step 3 only
    cur,                 \* the file process_uploaded_file is working on
    gemini_file,         \* the File object last read from the backend
    elapsed,             \* seconds slept in the polling loop
    tmp_path,            \* the temporary file of the call in progress ("" if none)
    tmp_leaked,          \* temporary files the calls of this run left on disk
    ingest_log,          \* per file of the run: what process_uploaded_file did and showed
    net,                 \* backend calls made by the run
    content_parts,       \* argument of the last model.generate_content call
    notice,              \* the st.warning / st.error / st.success of the handler
    event,               \* the last user action the script handled
    result,              \* what generate_content_stream returned to the handler
    markdown_text,       \* argument of the last create_docx_from_markdown call
    document,            \* the document it built
    paragraphs,          \* doc.paragraphs of the .docx given to extract_text_from_docx
    text_content         \* what extract_text_from_docx returned

vars == << session_state, api_key, pc, run, todo, gemini_files, format_instruction,
           cur, gemini_file, elapsed, tmp_path, tmp_leaked, ingest_log, net,
           content_parts, notice, event, result, markdown_text, document,
           paragraphs, text_content >>

docx_vars == << paragraphs, text_content >>

-----------------------------------------------------------------------------
(* Bounds of the model *)

MaxFiles == 2
MaxLen == 5
MaxParas == 3

(* Program constants *)

max_wait == 60

-----------------------------------------------------------------------------
(* Values *)

EmptyText == << >>

\* Texts the backend may return from generate_content (response.text).
ResponseTexts == { EmptyText, <<"#", " ", "a">>, <<"*", "*", "a", "*", "*">> }

\* What model.generate_content may do: raise, or return a response.
GenerateOutcomes ==
    { [raises |-> TRUE, text |-> EmptyText] }
        \cup { [raises |-> FALSE, text |-> t] : t \in ResponseTexts }

ApiKeys == { "", "key" }

\* Files the user may put in a file_uploader.
UploadedFiles == { [name |-> "a.docx", suffix |-> ".docx"],
                   [name |-> "b.png", suffix |-> ".png"] }

\* Lists of distinct uploaded files, at most n long.
FileLists(n) ==
    { fs \in UNION { [1..k -> UploadedFiles] : k \in 0..n } :
        \A i, j \in DOMAIN fs : i /= j => fs[i] /= fs[j] }

\* File.state as the code reads it: "NONE" is a missing or falsy state
\* (no attribute, or STATE_UNSPECIFIED = 0).
FileStates == { "NONE", "PROCESSING", "ACTIVE", "FAILED" }

Stages == 1..3

StageModes(n) ==
    CASE n = 1 -> { "-" }
      [] n = 2 -> { "NoPage", "Unclear", "Normal" }
      [] n = 3 -> { "FullRebuild", "PartialOptimization" }

NoRun == [stage |-> 0, mode |-> "-", files |-> << >>]
NoFile == [name |-> "", suffix |-> ""]
NoCur == [file |-> NoFile, extraction |-> "none"]
NoGeminiFile == [display_name |-> << >>, state |-> "NONE"]
NoNet == [upload_file |-> << >>, get_file |-> FALSE, generate_content |-> 0]
NoContent == [prompt |-> [stage |-> 0], files |-> << >>]
NoNotice == [msg |-> "", stage |-> 0]
\* result is None: nothing was returned (no call yet, or the call raised).
NoResult == [none |-> TRUE, text |-> EmptyText]
Cleared == [step1_result |-> EmptyText, step2_result |-> EmptyText,
            step3_result |-> EmptyText]
\* before: st.session_state as the script run that handled the event found it.
NoEvent == [op |-> "", stage |-> 0, before |-> Cleared]
NoDocument == << [style |-> "none", text |-> << >>] >>
\* extract_text_from_docx was not called.
NotExtracted == << "not extracted" >>

\* step<n>_result of a session state.
ResultIn(state, n) ==
    CASE n = 1 -> state.step1_result
      [] n = 2 -> state.step2_result
      [] n = 3 -> state.step3_result

StepResult(n) == ResultIn(session_state, n)

\* Python truthiness of a str.
Truthy(text) == text /= EmptyText

-----------------------------------------------------------------------------
(* Python str helpers used by create_docx_from_markdown *)

\* Characters that str.strip() removes.
Whitespace == { " ", "\n" }

\* s[i:] (0-based i), as a sequence.
Drop(s, i) == SubSeq(s, i + 1, Len(s))

\* s.startswith(p)
StartsWith(s, p) == Len(s) >= Len(p) /\ SubSeq(s, 1, Len(p)) = p

\* s.split(sep) for a one-character sep: always at least one piece.
RECURSIVE Split(_, _)
Split(s, sep) ==
    IF \A i \in DOMAIN s : s[i] /= sep
    THEN << s >>
    ELSE LET k == CHOOSE i \in DOMAIN s :
                      s[i] = sep /\ \A j \in 1..(i - 1) : s[j] /= sep
         IN  << SubSeq(s, 1, k - 1) >> \o Split(Drop(s, k), sep)

RECURSIVE LStrip(_)
LStrip(s) == IF s /= << >> /\ Head(s) \in Whitespace THEN LStrip(Tail(s)) ELSE s

RECURSIVE RStrip(_)
RStrip(s) ==
    IF s /= << >> /\ s[Len(s)] \in Whitespace THEN RStrip(SubSeq(s, 1, Len(s) - 1)) ELSE s

\* Mutation: lstrip() in place of strip().
MutStripLeftOnly(s) == LStrip(s)

\* s.strip()
Strip(s) == RStrip(LStrip(s))

\* s.replace(old, ''): occurrences are found left to right and do not overlap.
RECURSIVE Replace(_, _)
Replace(s, old) ==
    IF s = << >> THEN << >>
    ELSE IF StartsWith(s, old) THEN Replace(Drop(s, Len(old)), old)
    ELSE << Head(s) >> \o Replace(Tail(s), old)

-----------------------------------------------------------------------------
(* extract_text_from_docx *)

\* sep.join(texts)
RECURSIVE Join(_, _)
Join(texts, sep) ==
    IF texts = << >> THEN << >>
    ELSE IF Len(texts) = 1 THEN texts[1]
    ELSE texts[1] \o sep \o Join(Tail(texts), sep)

\* Lines 36-40: the stripped text of every paragraph that has any.
RECURSIVE FullText(_)
FullText(paras) ==
    IF paras = << >> THEN << >>
    ELSE LET text == Strip(Head(paras))
         IN  IF Truthy(text) THEN << text >> \o FullText(Tail(paras))
             ELSE FullText(Tail(paras))

\* Mutation: the paragraphs are joined by one newline.
MutJoinSingleNewline(full_text) == Join(full_text, <<"\n">>)

\* Line 41: '\n\n'.join(full_text)
JoinParagraphs(full_text) == Join(full_text, <<"\n", "\n">>)

\* readable: whether Document(file_path) could read the file.
extract_text_from_docx(paras, readable) ==
    IF readable THEN JoinParagraphs(FullText(paras)) ELSE EmptyText

-----------------------------------------------------------------------------
(* create_docx_from_markdown: the document is the sequence of its blocks *)

Heading(text, level) ==
    [style |-> CASE level = 1 -> "Heading 1"
                 [] level = 2 -> "Heading 2"
                 [] level = 3 -> "Heading 3",
     text |-> text]

Paragraph(text, style) == [style |-> style, text |-> text]

\* The block one stripped, non-empty line adds to the document.
LineBlock(line) ==
    IF StartsWith(line, <<"#", " ">>) THEN Heading(Drop(line, 2), 1)
    ELSE IF StartsWith(line, <<"#", "#", " ">>) THEN Heading(Drop(line, 3), 2)
    ELSE IF StartsWith(line, <<"#", "#", "#", " ">>) THEN Heading(Drop(line, 4), 3)
    ELSE IF StartsWith(line, <<"-", " ">>) \/ StartsWith(line, <<"*", " ">>)
         THEN Paragraph(Drop(line, 2), "List Bullet")
    ELSE Paragraph(Replace(Replace(line, <<"*", "*">>), <<"_", "_">>), "Normal")

RECURSIVE AddLines(_, _)
AddLines(doc, lines) ==
    IF lines = << >> THEN doc
    ELSE LET line == Strip(Head(lines))
         IN  IF line = << >>
             THEN AddLines(doc, Tail(lines))
             ELSE AddLines(Append(doc, LineBlock(line)), Tail(lines))

create_docx_from_markdown(text) == AddLines(<< >>, Split(text, "\n"))

-----------------------------------------------------------------------------
(* Session state *)

\* Mutation: storing a result also drops the results downstream of it.
MutStoreInvalidatesDownstream(n, text) ==
    CASE n = 1 -> [step1_result |-> text, step2_result |-> EmptyText,
                   step3_result |-> EmptyText]
      [] n = 2 -> [session_state EXCEPT !.step2_result = text,
                                        !.step3_result = EmptyText]
      [] n = 3 -> [session_state EXCEPT !.step3_result = text]

\* Mutation: a result is stored only where there is none yet.
MutStoreKeepsEarlier(n, text) ==
    IF Truthy(StepResult(n)) THEN session_state
    ELSE CASE n = 1 -> [session_state EXCEPT !.step1_result = text]
           [] n = 2 -> [session_state EXCEPT !.step2_result = text]
           [] n = 3 -> [session_state EXCEPT !.step3_result = text]

\* st.session_state.step<n>_result = result
Store(n, text) ==
    CASE n = 1 -> [session_state EXCEPT !.step1_result = text]
      [] n = 2 -> [session_state EXCEPT !.step2_result = text]
      [] n = 3 -> [session_state EXCEPT !.step3_result = text]

\* Mutation: the run button of Step 3 is shown without a Step 2 result.
MutStage3AlwaysEnabled(n) ==
    CASE n = 1 -> TRUE
      [] n = 2 -> Truthy(session_state.step1_result)
      [] n = 3 -> TRUE

\* Mutation: the run button is shown whatever the upstream result.
MutStageAlwaysEnabled(n) == TRUE

\* The else-branch of a tab, which holds the stage's run button.
StageEnabled(n) ==
    CASE n = 1 -> TRUE
      [] n = 2 -> Truthy(session_state.step1_result)
      [] n = 3 -> Truthy(session_state.step2_result)

\* Mutation: the download button is shown whatever the result.
MutDownloadAlwaysOffered(n) == TRUE

\* Whether the script renders the download button of stage n.
DownloadOffered(n) ==
    CASE n = 1 -> Truthy(session_state.step1_result)
      [] n = 2 -> Truthy(session_state.step1_result) /\ Truthy(session_state.step2_result)
      [] n = 3 -> Truthy(session_state.step2_result) /\ Truthy(session_state.step3_result)

\* Mutation: the empty key is not rejected.
MutConfigureUnchecked(key, raises) == ~raises

\* configure_gemini: raises is whether genai.configure throws.
configure_gemini(key, raises) == key /= "" /\ ~raises

\* The prompt of a stage run: the template (stage, mode), the format
\* instruction and the upstream results interpolated into it.
Prompt(n, mode, fmt) ==
    [stage |-> n, mode |-> mode, format_instruction |-> fmt,
     step1_result |-> IF n >= 2 THEN session_state.step1_result ELSE EmptyText,
     step2_result |-> IF n = 3 THEN session_state.step2_result ELSE EmptyText]

StandardFormat == "standard"
MimicFormat == "mimic"

-----------------------------------------------------------------------------
(* process_uploaded_file *)

\* The loop condition of the polling loop.
StillProcessing(gf, el) ==
    gf.state /= "NONE" /\ gf.state = "PROCESSING" /\ el < max_wait

\* Mutation: the test after the loop does not look for FAILED.
MutGivenUpIgnoresFailed(gf, el) == gf.state = "NONE" \/ el >= max_wait

\* Mutation: the test after the loop forgets the timeout.
MutGivenUpNoTimeout(gf, el) == gf.state = "NONE" \/ gf.state = "FAILED"

\* The test after the loop: the file is given up.
GivenUp(gf, el) ==
    gf.state = "NONE" \/ gf.state = "FAILED" \/ el >= max_wait

\* Mutation: the mimic instruction is chosen as soon as an example file was
\* supplied.
MutFormatMimicWhenSupplied(ok) ==
    IF run.stage = 3 THEN MimicFormat ELSE format_instruction

\* Lines 517-521: the format instruction once the example file was processed
\* (ok: process_uploaded_file returned a file).
FormatAfter(ok) ==
    IF run.stage = 3 /\ ok THEN MimicFormat ELSE format_instruction

\* Mutation: a file that failed is given to process_uploaded_file again.
MutRetryFailedFile(ok) == IF ok THEN Tail(todo) ELSE todo

\* Lines 242, 345, 517: the loop goes on to the next file, whatever became
\* of this one.
RestOfFiles(ok) == Tail(todo)

\* process_uploaded_file returns to the stage's loop: g_file is what it
\* returned (ok = not None), last the last backend answer, leak the temporary
\* file it left behind ("" if it removed it), msg the st.error it showed for
\* the file ("" if none).
Returned(f, extraction, ok, g_file, last, el, leak, msg) ==
    /\ gemini_files' = IF ok THEN Append(gemini_files, g_file) ELSE gemini_files
    /\ format_instruction' = FormatAfter(ok)
    /\ ingest_log' = Append(ingest_log,
           [file |-> f, extraction |-> extraction, last |-> last,
            timed_out |-> (el >= max_wait), returned |-> ok, shown |-> msg])
    /\ tmp_leaked' = IF leak = "" THEN tmp_leaked ELSE tmp_leaked \cup { leak }
    /\ tmp_path' = ""
    /\ cur' = NoCur
    /\ gemini_file' = NoGeminiFile
    /\ elapsed' = 0
    /\ todo' = RestOfFiles(ok)
    /\ pc' = IF todo' = << >> THEN "generate" ELSE "ingest"

\* Lines 130-139: after the loop.
AfterLoop(f, extraction, gf, el) ==
    IF GivenUp(gf, el)
    THEN Returned(f, extraction, FALSE, gf, gf.state, el, "", "ProcessingFailedOrTimeout")
    ELSE Returned(f, extraction, TRUE, gf, gf.state, el, "", "")

\* Lines 99-125: temporary file, .docx extraction, upload, first loop test.
\* extract_ok: whether Document(path) could be read; up: upload_file raises
\* or returns a File in some state.
UploadFile(extract_ok, up) ==
    /\ UNCHANGED docx_vars
    /\ pc = "ingest"
    /\ LET f == Head(todo)
           docx == f.suffix = ".docx"
           extraction == IF docx THEN (IF extract_ok THEN "ok" ELSE "failed") ELSE "none"
           tmp == IF docx THEN ".txt" ELSE f.suffix
           display_name == IF docx THEN << f.name, ".txt" >> ELSE << f.name >>
           gf == [display_name |-> display_name, state |-> up]
       IN  /\ docx \/ extract_ok
           /\ net' = [net EXCEPT !.upload_file = Append(@, display_name)]
           /\ IF up = "raise"
              THEN Returned(f, extraction, FALSE, NoGeminiFile, "raise", 0, tmp, "UploadError")
              ELSE IF StillProcessing(gf, 0)
              THEN /\ pc' = "poll"
                   /\ cur' = [file |-> f, extraction |-> extraction]
                   /\ gemini_file' = gf
                   /\ elapsed' = 0
                   /\ tmp_path' = tmp
                   /\ UNCHANGED << todo, gemini_files, format_instruction, tmp_leaked,
                                   ingest_log >>
              ELSE AfterLoop(f, extraction, gf, 0)
    /\ UNCHANGED << session_state, api_key, run, content_parts, notice, event,
                    result, markdown_text, document >>

\* Lines 126-128: one iteration of the polling loop, then the loop test.
PollFile(r) ==
    /\ UNCHANGED docx_vars
    /\ pc = "poll"
    /\ LET el == elapsed + 1
           gf == [gemini_file EXCEPT !.state = r]
       IN  /\ net' = [net EXCEPT !.get_file = TRUE]
           /\ IF r = "raise"
              THEN Returned(cur.file, cur.extraction, FALSE, NoGeminiFile, "raise", el,
                            tmp_path, "UploadError")
              ELSE IF StillProcessing(gf, el)
              THEN /\ elapsed' = el
                   /\ gemini_file' = gf
                   /\ UNCHANGED << pc, cur, tmp_path, todo, gemini_files,
                                   format_instruction, tmp_leaked, ingest_log >>
              ELSE AfterLoop(cur.file, cur.extraction, gf, el)
    /\ UNCHANGED << session_state, api_key, run, content_parts, notice, event,
                    result, markdown_text, document >>

-----------------------------------------------------------------------------
(* The button handlers *)

\* Every user action reruns the script from the top: the locals of the last
\* run are gone, and the logs of what the script did start empty.
Rerun(op, n) ==
    /\ event' = [op |-> op, stage |-> n, before |-> session_state]
    /\ todo' = << >>
    /\ gemini_files' = << >>
    /\ ingest_log' = << >>
    /\ tmp_leaked' = { }
    /\ net' = NoNet
    /\ content_parts' = NoContent
    /\ result' = NoResult
    /\ UNCHANGED << cur, gemini_file, elapsed, tmp_path >>

\* Lines 238-246, 339-348, 512-521: the run button of stage n is pressed
\* (or the tab shows the warning instead of the button).
RunStage(n, mode, files, raises) ==
    /\ UNCHANGED docx_vars
    /\ pc = "idle"
    /\ markdown_text' = EmptyText
    /\ document' = NoDocument
    /\ IF ~StageEnabled(n)
       THEN /\ Rerun("run", n)
            /\ notice' = [msg |-> "StagePrecondition", stage |-> n]
            /\ run' = NoRun
            /\ format_instruction' = "-"
            /\ UNCHANGED << session_state, api_key, pc >>
       ELSE IF ~configure_gemini(api_key, raises)
       THEN /\ Rerun("run", n)
            /\ notice' = [msg |-> IF api_key = "" THEN "CredentialMissing"
                                  ELSE "ConfigureFailed", stage |-> n]
            /\ run' = NoRun
            /\ format_instruction' = "-"
            /\ UNCHANGED << session_state, api_key, pc >>
       ELSE /\ event' = [op |-> "run", stage |-> n, before |-> session_state]
            /\ run' = [stage |-> n, mode |-> mode, files |-> files]
            /\ todo' = files
            /\ gemini_files' = << >>
            /\ format_instruction' = IF n = 3 THEN StandardFormat ELSE "-"
            /\ ingest_log' = << >>
            /\ tmp_leaked' = { }
            /\ net' = NoNet
            /\ content_parts' = NoContent
            /\ result' = NoResult
            /\ notice' = NoNotice
            /\ pc' = IF files = << >> THEN "generate" ELSE "ingest"
            /\ UNCHANGED << session_state, api_key, cur, gemini_file, elapsed,
                            tmp_path >>

\* generate_content_stream (lines 145-166): the text generate_content
\* returned, or None if it raised.
generate_content_stream(r) ==
    IF r.raises THEN NoResult ELSE [none |-> FALSE, text |-> r.text]

\* Mutation: the result is stored without the `if result:` test.
MutStoreUnconditionally(n, res) == Store(n, res.text)

\* `if result: st.session_state.step<n>_result = result` (lines 275-276,
\* 452-453, 590-591).
StoreIfResult(n, res) ==
    IF ~res.none /\ Truthy(res.text) THEN Store(n, res.text) ELSE session_state

\* The generation call of a stage run and what the handler does with it
\* (lines 274-277, 451-454, 589-592). r: what generate_content does.
Generate(r) ==
    /\ UNCHANGED docx_vars
    /\ pc = "generate"
    /\ content_parts' = [prompt |-> Prompt(run.stage, run.mode, format_instruction),
                         files |-> gemini_files]
    /\ net' = [net EXCEPT !.generate_content = @ + 1]
    /\ result' = generate_content_stream(r)
    /\ session_state' = StoreIfResult(run.stage, result')
    /\ notice' = IF r.raises THEN [msg |-> "GenerationError", stage |-> run.stage]
                 ELSE IF Truthy(r.text) THEN [msg |-> "Success", stage |-> run.stage]
                 ELSE notice
    /\ pc' = "idle"
    /\ event' = [event EXCEPT !.op = IF r.raises THEN "generate_failed"
                                     ELSE "generate_returned"]
    /\ UNCHANGED << api_key, run, todo, gemini_files, format_instruction, cur,
                    gemini_file, elapsed, tmp_path, tmp_leaked, ingest_log,
                    markdown_text, document >>

\* Mutation: the reset clears step1_result only.
MutResetOnlyStep1 == [session_state EXCEPT !.step1_result = EmptyText]

\* Mutation: the reset forgets step3_result.
MutResetForgetsStep3 ==
    [session_state EXCEPT !.step1_result = EmptyText, !.step2_result = EmptyText]

\* Lines 201-203: the three assignments of the reset button.
ResetState == Cleared

\* Lines 200-204: the reset button.
Reset ==
    /\ UNCHANGED docx_vars
    /\ pc = "idle"
    /\ session_state' = ResetState
    /\ Rerun("reset", 0)
    /\ notice' = NoNotice
    /\ run' = NoRun
    /\ format_instruction' = "-"
    /\ markdown_text' = EmptyText
    /\ document' = NoDocument
    /\ UNCHANGED << api_key, pc >>

\* Line 185: the key is typed into the sidebar.
SetApiKey(k) ==
    /\ UNCHANGED docx_vars
    /\ pc = "idle"
    /\ k /= api_key
    /\ api_key' = k
    /\ Rerun("key", 0)
    /\ notice' = NoNotice
    /\ run' = NoRun
    /\ format_instruction' = "-"
    /\ markdown_text' = EmptyText
    /\ document' = NoDocument
    /\ UNCHANGED << session_state, pc >>

\* Lines 279-290, 456-467, 594-605: the download of stage n is asked for.
ExportStage(n) ==
    /\ UNCHANGED docx_vars
    /\ pc = "idle"
    /\ Rerun("export", n)
    /\ notice' = NoNotice
    /\ run' = NoRun
    /\ format_instruction' = "-"
    /\ IF DownloadOffered(n)
       THEN /\ markdown_text' = StepResult(n)
            /\ document' = create_docx_from_markdown(StepResult(n))
       ELSE /\ markdown_text' = EmptyText
            /\ document' = NoDocument
    /\ UNCHANGED << session_state, api_key, pc >>

-----------------------------------------------------------------------------
(* The pipeline *)

\* Lines 172-177, and nothing running.
NothingRun ==
    /\ session_state = Cleared
    /\ api_key = ""
    /\ pc = "idle"
    /\ run = NoRun
    /\ todo = << >>
    /\ gemini_files = << >>
    /\ format_instruction = "-"
    /\ cur = NoCur
    /\ gemini_file = NoGeminiFile
    /\ elapsed = 0
    /\ tmp_path = ""
    /\ tmp_leaked = { }
    /\ ingest_log = << >>
    /\ net = NoNet
    /\ content_parts = NoContent
    /\ notice = NoNotice
    /\ event = NoEvent
    /\ result = NoResult

Init ==
    /\ NothingRun
    /\ markdown_text = EmptyText
    /\ document = NoDocument
    /\ paragraphs = << >>
    /\ text_content = NotExtracted

\* The files a stage's uploader can hold: Step 3 takes one example file.
StageFiles(n) == IF n = 3 THEN FileLists(1) ELSE FileLists(MaxFiles)

Next ==
    \/ \E n \in Stages : \E mode \in StageModes(n) : \E files \in StageFiles(n) :
         \E raises \in BOOLEAN : RunStage(n, mode, files, raises)
    \/ \E extract_ok \in BOOLEAN : \E up \in FileStates \cup { "raise" } :
         UploadFile(extract_ok, up)
    \/ \E r \in FileStates \cup { "raise" } : PollFile(r)
    \/ \E r \in GenerateOutcomes : Generate(r)
    \/ Reset
    \/ \E k \in ApiKeys : SetApiKey(k)
    \/ \E n \in Stages : ExportStage(n)

Spec == Init /\ [][Next]_vars

-----------------------------------------------------------------------------
(* create_docx_from_markdown on its own, over every text up to MaxLen *)

Chars == { "#", " ", "-", "*", "_", "a", "\n" }

Texts(n) == UNION { [1..k -> Chars] : k \in 0..n }

InitRender ==
    /\ NothingRun
    /\ markdown_text \in Texts(MaxLen)
    /\ document = NoDocument
    /\ paragraphs = << >>
    /\ text_content = NotExtracted

\* One call of create_docx_from_markdown(markdown_text).
Render ==
    /\ UNCHANGED docx_vars
    /\ event = NoEvent
    /\ event' = [op |-> "render", stage |-> 0, before |-> Cleared]
    /\ document' = create_docx_from_markdown(markdown_text)
    /\ UNCHANGED << session_state, api_key, pc, run, todo, gemini_files,
                    format_instruction, cur, gemini_file, elapsed, tmp_path, tmp_leaked,
                    ingest_log, net, content_parts, notice, result, markdown_text >>

NextRender == Render

SpecRender == InitRender /\ [][NextRender]_vars

-----------------------------------------------------------------------------
(* extract_text_from_docx on its own, over documents of up to MaxParas
   paragraphs *)

\* Texts a paragraph of the document may hold (para.text).
ParagraphTexts ==
    { << >>, <<" ">>, <<"a">>, <<" ", "a", " ">>, <<"b", " ", "b">>,
      <<"a", "\n", "b">> }

Documents(n) == UNION { [1..k -> ParagraphTexts] : k \in 0..n }

InitExtract ==
    /\ NothingRun
    /\ markdown_text = EmptyText
    /\ document = NoDocument
    /\ paragraphs \in Documents(MaxParas)
    /\ text_content = NotExtracted

\* One call of extract_text_from_docx on a file holding the paragraphs.
Extract(readable) ==
    /\ event = NoEvent
    /\ event' = [op |-> IF readable THEN "extract" ELSE "extract_failed",
                 stage |-> 0, before |-> Cleared]
    /\ text_content' = extract_text_from_docx(paragraphs, readable)
    /\ UNCHANGED << session_state, api_key, pc, run, todo, gemini_files,
                    format_instruction, cur, gemini_file, elapsed, tmp_path, tmp_leaked,
                    ingest_log, net, content_parts, notice, result, markdown_text,
                    document, paragraphs >>

NextExtract == \E readable \in BOOLEAN : Extract(readable)

SpecExtract == InitExtract /\ [][NextExtract]_vars

-----------------------------------------------------------------------------
(* Properties of the pipeline, checked under Spec *)

Generated == event.op \in { "generate_failed", "generate_returned" }

\* C1: a run of stage n > 1 asked for while the result of stage n-1 is absent
\* is blocked with the stage-precondition notice: nothing is ingested, no
\* backend call is made and no result changes.
C1_StagePreconditionBlocks ==
    \A n \in 2..3 :
        (event.op = "run" /\ event.stage = n /\ ~Truthy(ResultIn(event.before, n - 1)))
            => /\ pc = "idle"
               /\ notice = [msg |-> "StagePrecondition", stage |-> n]
               /\ session_state = event.before
               /\ ingest_log = << >>
               /\ net = NoNet
               /\ content_parts = NoContent

\* Step 3 asked for after a successful Step 1, Step 2 never run: blocked.
C1_Witness ==
    /\ event.op = "run" /\ event.stage = 3
    /\ Truthy(event.before.step1_result)
    /\ ~Truthy(event.before.step2_result)
    /\ notice.msg = "StagePrecondition"

\* C2: when the generation call of a stage run raises, nothing is stored:
\* all three results are as the run found them.
C2_FailedGenerationStoresNothing ==
    event.op = "generate_failed" => (result = NoResult /\ session_state = event.before)

\* A failed re-run of a stage that had a result: the earlier text is kept.
C2_Witness ==
    /\ event.op = "generate_failed"
    /\ Truthy(StepResult(event.stage))
    /\ notice.msg = "GenerationError"

\* C3: the reset leaves all three results absent, whatever they were before
\* (so also when they were absent already: a second reset changes nothing).
C3_ResetClearsAll ==
    event.op = "reset" => \A n \in Stages : StepResult(n) = EmptyText

\* A reset taken with all three results present.
C3_Witness ==
    /\ event.op = "reset"
    /\ \A n \in Stages : Truthy(ResultIn(event.before, n))
    /\ \A n \in Stages : ~Truthy(StepResult(n))

\* C4: an export of stage n gives a document only if the result of stage n is
\* present, and then the document of that result; after a reset no export is
\* offered for any stage.
C4_ExportNeedsResult ==
    /\ event.op = "export" =>
          /\ session_state = event.before
          /\ ~Truthy(StepResult(event.stage)) => document = NoDocument
          /\ document /= NoDocument =>
                /\ Truthy(StepResult(event.stage))
                /\ markdown_text = StepResult(event.stage)
    /\ event.op = "reset" => \A n \in Stages : ~DownloadOffered(n)

\* An export of Step 3 asked for with everything cleared: no document.
C4_Witness ==
    /\ event.op = "export" /\ event.stage = 3
    /\ event.before = Cleared
    /\ document = NoDocument

\* C5: the polling loop runs at most max_wait iterations, and a file whose
\* state was PROCESSING on every read is given up at the max_wait-th read:
\* timed out, nothing returned.
C5_PendingTimesOut ==
    /\ elapsed <= max_wait
    /\ pc = "poll" => (elapsed < max_wait /\ gemini_file.state = "PROCESSING")
    /\ \A i \in DOMAIN ingest_log :
          ingest_log[i].last = "PROCESSING" =>
              /\ ingest_log[i].timed_out
              /\ ~ingest_log[i].returned
              /\ \A j \in DOMAIN gemini_files :
                    gemini_files[j].display_name[1] /= ingest_log[i].file.name

\* A file that was still PROCESSING when the wait ran out.
C5_Witness ==
    \E i \in DOMAIN ingest_log :
        /\ ingest_log[i].last = "PROCESSING"
        /\ ingest_log[i].timed_out
        /\ ingest_log[i].shown = "ProcessingFailedOrTimeout"

\* C6: a run asked for with the key empty is aborted before any backend
\* call: no upload, no poll, no generation, no result changed.
C6_NoKeyNoNetwork ==
    /\ (event.op = "run" /\ api_key = "") =>
          /\ pc = "idle"
          /\ notice.msg \in { "CredentialMissing", "StagePrecondition" }
          /\ StageEnabled(event.stage) => notice.msg = "CredentialMissing"
          /\ session_state = event.before
          /\ ingest_log = << >>
          /\ net = NoNet
          /\ content_parts = NoContent
    /\ net /= NoNet => api_key /= ""

\* Step 3 asked for with Step 2 done and the key removed since.
C6_Witness ==
    /\ event.op = "run" /\ event.stage = 3
    /\ api_key = ""
    /\ Truthy(session_state.step2_result)
    /\ notice.msg = "CredentialMissing"

\* The ingestion of a file succeeded: its text could be extracted (if it is
\* a .docx) and the backend's last answer was ACTIVE.
IngestionSucceeded(e) == e.extraction /= "failed" /\ e.last = "ACTIVE"

NamesOf(entries) == [i \in DOMAIN entries |-> entries[i].file.name]

\* C7: whatever happens to each file, every file of the run is attempted, the
\* generation call is made, and its assets are exactly the files whose
\* ingestion succeeded, in the order supplied.
C7_AssetsAreTheSuccesses ==
    Generated =>
        /\ NamesOf(ingest_log) = [i \in DOMAIN run.files |-> run.files[i].name]
        /\ net.generate_content = 1
        /\ [i \in DOMAIN content_parts.files |-> content_parts.files[i].display_name[1]]
               = NamesOf(SelectSeq(ingest_log, IngestionSucceeded))

\* C8: a stage run that stores a result changes the result of its own stage
\* only.
C8_NoCascade ==
    Generated =>
        \A m \in Stages \ { event.stage } : StepResult(m) = ResultIn(event.before, m)

\* Step 1 run again with Step 3 present: Step 1 replaced, Step 2 and 3 kept.
C8_Witness ==
    /\ event.op = "generate_returned" /\ event.stage = 1
    /\ Truthy(event.before.step3_result)
    /\ session_state.step1_result /= event.before.step1_result
    /\ session_state.step2_result = event.before.step2_result
    /\ session_state.step3_result = event.before.step3_result

Uploaded(f) == \E j \in DOMAIN net.upload_file : net.upload_file[j][1] = f.name

\* C9: a .docx whose text extraction fails is not uploaded, and no reference
\* to it reaches the assets of the generation call.
C9_FailedExtractionUploadsNothing ==
    /\ pc = "poll" => cur.extraction /= "failed"
    /\ \A i \in DOMAIN ingest_log :
          ingest_log[i].extraction = "failed" =>
              /\ ~Uploaded(ingest_log[i].file)
              /\ ~ingest_log[i].returned
    /\ \A i \in DOMAIN ingest_log : \A j \in DOMAIN content_parts.files :
          ingest_log[i].extraction = "failed" =>
              content_parts.files[j].display_name[1] /= ingest_log[i].file.name

-----------------------------------------------------------------------------
(* Properties of create_docx_from_markdown, checked under SpecRender *)

\* The j-th smallest element of a set of numbers.
NthOf(S, j) == CHOOSE b \in S : Cardinality({ c \in S : c < b }) = j - 1

\* The places where the lines of t end: its newlines, and its two ends.
Breaks(t) == { 0, Len(t) + 1 } \cup { i \in 1..Len(t) : t[i] = "\n" }

LineCount(t) == Cardinality(Breaks(t)) - 1

\* The j-th line of t, as written.
RawLine(t, j) ==
    LET a == NthOf(Breaks(t), j)
        b == NthOf(Breaks(t), j + 1)
    IN  [i \in 1..(b - a - 1) |-> t[a + i]]

IsBlank(l) == \A i \in DOMAIN l : l[i] = " "

\* The numbers of the lines of t that are not blank.
NonBlank(t) == { j \in 1..LineCount(t) : ~IsBlank(RawLine(t, j)) }

\* A non-blank line without the spaces around it.
Trimmed(l) ==
    LET inked == { i \in DOMAIN l : l[i] /= " " }
        first == CHOOSE i \in inked : \A j \in inked : i <= j
        last == CHOOSE i \in inked : \A j \in inked : j <= i
    IN  [i \in 1..(last - first + 1) |-> l[first + i - 1]]

HasMarker(l, m) == Len(l) >= Len(m) /\ \A i \in 1..Len(m) : l[i] = m[i]

AfterMarker(l, m) == [i \in 1..(Len(l) - Len(m)) |-> l[i + Len(m)]]

\* l with every pair of adjacent c removed, pairs taken from the left: of a
\* run of c of odd length only the last c is left.
WithoutPairs(l, c) ==
    LET runStart(i) == CHOOSE a \in 1..i :
                           /\ \A x \in a..i : l[x] = c
                           /\ a = 1 \/ l[a - 1] /= c
        kept == { i \in DOMAIN l :
                    \/ l[i] /= c
                    \/ /\ i = Len(l) \/ l[i + 1] /= c
                       /\ (i - runStart(i) + 1) % 2 = 1 }
    IN  [j \in 1..Cardinality(kept) |-> l[NthOf(kept, j)]]

\* The block the description gives for a line.
DescribedBlock(l) ==
    IF HasMarker(l, <<"#", " ">>)
        THEN [style |-> "Heading 1", text |-> AfterMarker(l, <<"#", " ">>)]
    ELSE IF HasMarker(l, <<"#", "#", " ">>)
        THEN [style |-> "Heading 2", text |-> AfterMarker(l, <<"#", "#", " ">>)]
    ELSE IF HasMarker(l, <<"#", "#", "#", " ">>)
        THEN [style |-> "Heading 3", text |-> AfterMarker(l, <<"#", "#", "#", " ">>)]
    ELSE IF HasMarker(l, <<"-", " ">>)
        THEN [style |-> "List Bullet", text |-> AfterMarker(l, <<"-", " ">>)]
    ELSE IF HasMarker(l, <<"*", " ">>)
        THEN [style |-> "List Bullet", text |-> AfterMarker(l, <<"*", " ">>)]
    ELSE [style |-> "Normal", text |-> WithoutPairs(WithoutPairs(l, "*"), "_")]

\* C10, as stated: one block per non-blank line, in order, its kind given by
\* the marker the line starts with.
C10_BlockPerLineAsWritten ==
    event.op = "render" =>
        /\ Len(document) = Cardinality(NonBlank(markdown_text))
        /\ \A k \in 1..Cardinality(NonBlank(markdown_text)) :
              document[k].style =
                  DescribedBlock(RawLine(markdown_text,
                                         NthOf(NonBlank(markdown_text), k))).style

\* C10, amended: one block per non-blank line, in order, its kind and text
\* given by the line with the whitespace around it removed: a marker "# ",
\* "## ", "### ", "- " or "* " at its start gives a heading or a bullet with
\* the rest as text, and any other line a plain paragraph with the pairs
\* "**" and then "__" removed.
C10_BlockPerTrimmedLine ==
    event.op = "render" =>
        /\ Len(document) = Cardinality(NonBlank(markdown_text))
        /\ \A k \in 1..Cardinality(NonBlank(markdown_text)) :
              document[k] =
                  DescribedBlock(Trimmed(RawLine(markdown_text,
                                                 NthOf(NonBlank(markdown_text), k))))

\* A heading line followed by a plain line: two blocks, in that order.
C10_Witness ==
    /\ event.op = "render"
    /\ Len(document) = 2
    /\ document[1] = [style |-> "Heading 1", text |-> <<"a">>]
    /\ document[2].style = "Normal"

-----------------------------------------------------------------------------
(* Properties of extract_text_from_docx, checked under SpecExtract *)

IsSpace(c) == c = " " \/ c = "\n"

\* A paragraph's text without the whitespace around it.
Bare(p) ==
    LET inked == { i \in DOMAIN p : ~IsSpace(p[i]) }
    IN  IF inked = { } THEN << >>
        ELSE LET first == CHOOSE i \in inked : \A j \in inked : i <= j
                 last == CHOOSE i \in inked : \A j \in inked : j <= i
             IN  [i \in 1..(last - first + 1) |-> p[first + i - 1]]

\* The numbers of the paragraphs that are not empty once trimmed.
Kept(paras) == { i \in DOMAIN paras : Bare(paras[i]) /= << >> }

\* The length of the first j kept paragraphs, trimmed.
RECURSIVE KeptLength(_, _)
KeptLength(paras, j) ==
    IF j = 0 THEN 0
    ELSE KeptLength(paras, j - 1) + Len(Bare(paras[NthOf(Kept(paras), j)]))

\* Where the j-th kept paragraph starts in the text: after the paragraphs
\* before it and one separator of two newlines for each.
StartOf(paras, j) == KeptLength(paras, j - 1) + 2 * (j - 1)

\* C11: of a readable document with k paragraphs that are non-empty once
\* trimmed, the text returned holds those k paragraphs, trimmed, in document
\* order, with exactly one blank line (two newlines) between consecutive
\* ones and nothing before the first or after the last.
C11_ParagraphsJoinedByBlankLine ==
    event.op = "extract" =>
        LET k == Cardinality(Kept(paragraphs))
        IN  /\ Len(text_content) =
                   KeptLength(paragraphs, k) + (IF k = 0 THEN 0 ELSE 2 * (k - 1))
            /\ \A j \in 1..k :
                  LET p == Bare(paragraphs[NthOf(Kept(paragraphs), j)])
                      o == StartOf(paragraphs, j)
                  IN  /\ \A i \in 1..Len(p) : text_content[o + i] = p[i]
                      /\ j < k => /\ text_content[o + Len(p) + 1] = "\n"
                                  /\ text_content[o + Len(p) + 2] = "\n"

\* Three paragraphs, the middle one blank: two are returned, trimmed, with
\* one blank line between them.
C11_Witness ==
    /\ event.op = "extract"
    /\ paragraphs = << <<" ", "a", " ">>, <<" ">>, <<"b", " ", "b">> >>
    /\ text_content = <<"a", "\n", "\n", "b", " ", "b">>

-----------------------------------------------------------------------------
(* Further properties of the pipeline, checked under Spec *)

\* C12: the polling goes on only while the state read is PROCESSING and the
\* wait is under max_wait; a file is reported timed out only if the state
\* last read is still PROCESSING, and a file whose last state read is ACTIVE
\* is returned, also when that was read on the last poll.
C12_ReadyIsReturned ==
    /\ pc = "poll" => (gemini_file.state = "PROCESSING" /\ elapsed < max_wait)
    /\ \A i \in DOMAIN ingest_log :
          /\ ingest_log[i].last = "ACTIVE" => ingest_log[i].returned
          /\ (ingest_log[i].timed_out /\ ~ingest_log[i].returned
                /\ ingest_log[i].last \notin { "FAILED", "NONE", "raise" })
                => ingest_log[i].last = "PROCESSING"

\* C13: no temporary file outlives the call of process_uploaded_file that
\* made it, whatever the way the call ends.
C13_NoTemporaryFileLeft ==
    /\ tmp_leaked = { }
    /\ pc /= "poll" => tmp_path = ""

\* C14: when the generation call returns, the result of the run's stage is
\* the text it returned, whatever was there before.
C14_ReturnedTextIsStored ==
    event.op = "generate_returned" =>
        (~result.none /\ StepResult(event.stage) = result.text)

\* C14, amended: when the generation call returns a non-empty text, the
\* result of the run's stage is that text, whatever was there before; when
\* it returns the empty text nothing is stored.
C14_NonEmptyTextIsStored ==
    event.op = "generate_returned" =>
        /\ ~result.none
        /\ Truthy(result.text) => StepResult(event.stage) = result.text
        /\ ~Truthy(result.text) => session_state = event.before

\* A stage run again, returning another text than the one it had.
C14_Witness ==
    /\ event.op = "generate_returned"
    /\ Truthy(result.text)
    /\ Truthy(ResultIn(event.before, event.stage))
    /\ ResultIn(event.before, event.stage) /= result.text
    /\ StepResult(event.stage) = result.text

\* C15, as stated: a Step 3 run asks to mimic the example whenever an example
\* file was supplied, and for the standard format when none was.
C15_MimicWhenSupplied ==
    (Generated /\ event.stage = 3) =>
        content_parts.prompt.format_instruction =
            (IF run.files /= << >> THEN MimicFormat ELSE StandardFormat)

\* C15, amended: a Step 3 run, in either mode, asks to mimic the example
\* when an example file was supplied and process_uploaded_file returned a
\* file for it (the file then is the one asset of the call), and for the
\* standard format otherwise.
C15_MimicWhenIngested ==
    (Generated /\ event.stage = 3) =>
        LET ingested == \E i \in DOMAIN ingest_log : ingest_log[i].returned
        IN  /\ run.mode \in { "FullRebuild", "PartialOptimization" }
            /\ content_parts.prompt.mode = run.mode
            /\ ingested <=> (run.files /= << >> /\ Len(content_parts.files) = 1)
            /\ content_parts.prompt.format_instruction =
                   (IF ingested THEN MimicFormat ELSE StandardFormat)

\* A full rebuild with an example file whose ingestion failed: standard
\* format.
C15_Witness ==
    /\ Generated /\ event.stage = 3
    /\ run.mode = "FullRebuild"
    /\ run.files /= << >>
    /\ ~ingest_log[1].returned
    /\ content_parts.prompt.format_instruction = StandardFormat

\* C16: within one run every supplied file is uploaded at most once and
\* given to process_uploaded_file at most once, and the generation call is
\* made at most once, whatever fails.
C16_NothingRetried ==
    /\ net.generate_content <= 1
    /\ Len(ingest_log) <= Len(run.files)
    /\ \A i, j \in DOMAIN ingest_log :
          i /= j => ingest_log[i].file /= ingest_log[j].file
    /\ \A i, j \in DOMAIN net.upload_file :
          i /= j => net.upload_file[i][1] /= net.upload_file[j][1]
    /\ \A i \in DOMAIN net.upload_file :
          \E k \in DOMAIN run.files : run.files[k].name = net.upload_file[i][1]
    /\ pc = "idle" => (todo = << >> \/ run = NoRun)

\* A run in which one upload raised, one file timed out and the generation
\* failed: two uploads, one generation call.
C16_Witness ==
    /\ event.op = "generate_failed"
    /\ Len(net.upload_file) = 2
    /\ net.generate_content = 1
    /\ \E i \in DOMAIN ingest_log : ingest_log[i].last = "raise"
    /\ \E i \in DOMAIN ingest_log : ingest_log[i].timed_out

\* C17: every file that process_uploaded_file returns, and so every file in
\* the list given to the generation call, was ACTIVE when its state was last
\* read; a file last read as PROCESSING, FAILED or without a state is not
\* returned.
C17_ReturnedIsReady ==
    /\ \A i \in DOMAIN ingest_log :
          ingest_log[i].returned => ingest_log[i].last = "ACTIVE"
    /\ \A j \in DOMAIN gemini_files : gemini_files[j].state = "ACTIVE"
    /\ Len(gemini_files) =
          Cardinality({ i \in DOMAIN ingest_log : ingest_log[i].returned })
    /\ Generated =>
          /\ content_parts.files = gemini_files
          /\ \A j \in DOMAIN content_parts.files :
                content_parts.files[j].state = "ACTIVE"

\* A run of two files, one last read FAILED and one ACTIVE: the generation
\* call got the ACTIVE one only.
C17_Witness ==
    /\ Generated
    /\ Len(run.files) = MaxFiles
    /\ Len(content_parts.files) = 1
    /\ \E i \in DOMAIN ingest_log : ingest_log[i].last = "FAILED"
    /\ \E i \in DOMAIN ingest_log :
          ingest_log[i].last = "ACTIVE" /\ ingest_log[i].returned

\* C18: in every reachable state a Step 3 result implies a Step 2 result and
\* a Step 2 result implies a Step 1 result; a result changes only by the
\* reset or by a stage run storing a non-empty text as its own result.
C18_ResultsFormAChain ==
    /\ Truthy(session_state.step3_result) => Truthy(session_state.step2_result)
    /\ Truthy(session_state.step2_result) => Truthy(session_state.step1_result)
    /\ \A n \in Stages :
          StepResult(n) /= ResultIn(event.before, n) =>
              \/ event.op = "reset"
              \/ /\ event.op = "generate_returned"
                 /\ event.stage = n
                 /\ Truthy(StepResult(n))

\* Step 2 run again, with a new result, while a Step 3 result is there.
C18_Witness ==
    /\ event.op = "generate_returned" /\ event.stage = 2
    /\ Truthy(event.before.step3_result)
    /\ session_state.step2_result /= event.before.step2_result
    /\ session_state.step3_result = event.before.step3_result

\* C19: in every reachable state the download button of stage n is rendered
\* whenever the result of stage n is there, although the Step 2 button is
\* inside the Step 1 gate and the Step 3 button inside the Step 2 gate; an
\* export of a result that is there gives a document.
C19_PresentResultIsExportable ==
    /\ \A n \in Stages : Truthy(StepResult(n)) => DownloadOffered(n)
    /\ (event.op = "export" /\ Truthy(StepResult(event.stage))) =>
           document /= NoDocument

\* The Step 2 result exported while a Step 3 result is there too.
C19_Witness ==
    /\ event.op = "export" /\ event.stage = 2
    /\ Truthy(session_state.step3_result)
    /\ document /= NoDocument

====
